---- MODULE Spec2Model ----
(***************************************************************************)
(* Model_base of sjSDM_py/model.py: the bookkeeping of add_layer, build,   *)
(* fit, predict and logLik.  Tensors are kept by shape; where the entries   *)
(* of the covariance factor are read (the regularization total returned by *)
(* logLik) they are drawn from SigmaVals.  One call runs at a time (fit is *)
(* split at its loop boundaries).                                          *)
(***************************************************************************)
EXTENDS Integers, Sequences, FiniteSets, TLC

\* ---- bounds of the explored inputs ----
MaxInput  == 1   \* input_shape ranges over 1..MaxInput
MaxLayers == 2   \* add_layer is explored up to this many layers
MaxHidden == 2   \* output width of a layer: 1..MaxHidden
MaxDf     == 2   \* df argument of build: 1..MaxDf (or None)
MaxCalls  == 4   \* calls made on the model after its construction
MaxN      == 3   \* rows of X (and Y)
MaxBatch  == 3   \* batch_size
MaxEpochs == 2   \* epochs
MaxPenalty == 2  \* l1, l2 range over 0..MaxPenalty

SigmaVals == {-1, 2}         \* entries a factor matrix may hold
InverseFlags == {FALSE}      \* torch.inverse is over the reals: not explored

NoDf      == 0               \* self.df = None
NoSigma   == <<>>            \* self.sigma = None, self.sigma_numpy = None
NoOpt     == <<>>            \* self.optimizer = None
\* a loss value, kept symbolically: the batch-mean data loss of batch `step` of
\* epoch `epoch` of the fit call number `fit`, plus nreg regularization terms
Loss(fit, epoch, step, nreg) ==
    [fit |-> fit, epoch |-> epoch, step |-> step, nreg |-> nreg]
ZeroLoss  == Loss(0, 0, 0, 0)       \* an entry of np.zeros
Unbound   == Loss(-1, -1, -1, -1)   \* a local variable not yet assigned
NoHistory == <<Unbound>>     \* self.history = None
NoCall    == [status |-> "none"]
Zeros(n)  == [i \in 1..n |-> ZeroLoss]   \* np.zeros(n), torch.zeros(n)

VARIABLES input_shape, layers, weights, losses, history, sigma, sigma_numpy,
          weights_numpy, optimizer, df,
          call,        \* the locals of the fit call in progress / just ended
          lastCall,    \* the last call that ended: its arguments and outcome
          buildCount,  \* builds that reached the allocation of sigma
          fitCalls,    \* fit calls started
          ncalls       \* calls made so far

vars == <<input_shape, layers, weights, losses, history, sigma, sigma_numpy,
          weights_numpy, optimizer, df, call, lastCall, buildCount, fitCalls,
          ncalls>>

\* ---- arithmetic helpers ----
Abs(x) == IF x < 0 THEN -x ELSE x

RECURSIVE SumSeq(_)
SumSeq(s) == IF s = <<>> THEN 0 ELSE s[1] + SumSeq(Tail(s))

RECURSIVE Flatten(_)
Flatten(ss) == IF ss = <<>> THEN <<>> ELSE ss[1] \o Flatten(Tail(ss))

\* ---- matrices ----
Matrices(r, c) == [1..r -> [1..c -> SigmaVals]]
Rows(F) == Len(F)
Cols(F) == Len(F[1])

\* torch.matmul(sigma, sigma.t())
Cov(F) == [i \in 1..Rows(F) |-> [j \in 1..Rows(F) |->
              SumSeq([k \in 1..Cols(F) |-> F[i][k] * F[j][k]])]]

\* torch.triu(ss, diag): the entries with j - i >= diag, the others zeroed
Triu(M, diag) == [i \in 1..Len(M) |-> [j \in 1..Len(M[i]) |->
                    IF j - i >= diag THEN M[i][j] ELSE 0]]

SumAbs(M) == SumSeq([i \in 1..Len(M) |-> SumSeq([j \in 1..Len(M[i]) |-> Abs(M[i][j])])])
SumSq(M)  == SumSeq([i \in 1..Len(M) |-> SumSeq([j \in 1..Len(M[i]) |-> M[i][j] * M[i][j]])])

\* ---- the transform layers (layers.py is outside this file) ----
\* a layer as add_layer receives it: hidden output width, own regularizer or not
NewLayer(in, hidden, reg) ==
    [shape |-> <<in, hidden>>, reg |-> reg, built |-> FALSE]

\* layer.build() allocates the layer's parameters
BuildLayer(l) == [l EXCEPT !.built = TRUE]

\* forward pass and get_weights_numpy need the allocated parameters
LayerReady(l) == l.built

LayerPenalty == 1            \* value of a layer's own regularization term

\* ---- regularization terms (the closures held in self.losses) ----
Term(kind, w, cov, diag, inv) ==
    [kind |-> kind, w |-> w, cov |-> cov, diag |-> diag, inv |-> inv]

LayerTerm == Term("layer", LayerPenalty, FALSE, 0, FALSE)

\* a slip: the ridge term of the factor branch tests l1 instead of l2
cov_constrain_terms_slip(l1, l2, reg_on_Cov, reg_on_Diag, inverse) ==
    IF reg_on_Cov
    THEN LET diag == IF reg_on_Diag THEN 0 ELSE 1
         IN  (IF l1 > 0 THEN <<Term("l1", l1, TRUE, diag, inverse)>> ELSE <<>>)
             \o (IF l2 > 0 THEN <<Term("l2", l2, TRUE, diag, inverse)>> ELSE <<>>)
    ELSE (IF l1 > 0 THEN <<Term("l1", l1, FALSE, 0, FALSE)>> ELSE <<>>)
         \o (IF l1 > 0 THEN <<Term("l2", l2, FALSE, 0, FALSE)>> ELSE <<>>)

\* what __build_cov_constrain_function appends to self.losses
cov_constrain_terms(l1, l2, reg_on_Cov, reg_on_Diag, inverse) ==
    IF reg_on_Cov
    THEN LET diag == IF reg_on_Diag THEN 0 ELSE 1
         IN  (IF l1 > 0 THEN <<Term("l1", l1, TRUE, diag, inverse)>> ELSE <<>>)
             \o (IF l2 > 0 THEN <<Term("l2", l2, TRUE, diag, inverse)>> ELSE <<>>)
    ELSE (IF l1 > 0 THEN <<Term("l1", l1, FALSE, 0, FALSE)>> ELSE <<>>)
         \o (IF l2 > 0 THEN <<Term("l2", l2, FALSE, 0, FALSE)>> ELSE <<>>)

\* calling one closure of self.losses while self.sigma = F
EvalTerm(t, F) ==
    IF t.kind = "layer" THEN t.w
    ELSE LET M == IF t.cov THEN Triu(Cov(F), t.diag) ELSE F
         IN  IF t.kind = "l1" THEN t.w * SumAbs(M) ELSE t.w * SumSq(M)

\* for k in range(len(self.losses)): loss += self.losses[k]()
SumTerms(ts, F) == SumSeq([k \in 1..Len(ts) |-> EvalTerm(ts[k], F)])

\* ---- build, piece by piece ----
\* a slip: a df argument overrides the stored df
build_df_arg(selfdf, d) == IF d # NoDf THEN d ELSE selfdf

\* lines 115-118: the df the build uses (and stores)
build_df(selfdf, d) == IF selfdf = NoDf THEN d ELSE selfdf

\* line 119
r_dim(ls) == ls[Len(ls)].shape[2]

\* a slip: build leaves self.weights alone
build_weights_none(ws, ls) == ws

\* lines 126-128: self.weights.append(layer.get_weights()) for every layer
build_weights(ws, ls) == ws \o [i \in 1..Len(ls) |-> i]

\* lines 129-130: the layers' own regularization terms
build_layer_losses(ls) ==
    Flatten([i \in 1..Len(ls) |-> IF ls[i].reg THEN <<LayerTerm>> ELSE <<>>])

\* lines 134-137: the optimizer is bound to params: the entries of self.weights
\* and then sigma (written 0)
build_optimizer(old, opt, ws) ==
    IF opt THEN ws \o <<0>> ELSE old

Ended(op, res, args, out) ==
    [op |-> op, res |-> res, args |-> args, out |-> out, reg |-> <<>>]

Idle == call.status # "running"

\* a new call may start: none is running (calls are counted up to MaxCalls)
Enter == Idle /\ ncalls < MaxCalls /\ ncalls' = ncalls + 1

Init ==
    /\ input_shape \in 1..MaxInput
    /\ layers = <<>>
    /\ weights = <<>>
    /\ losses = <<>>
    /\ history = NoHistory
    /\ sigma = NoSigma
    /\ sigma_numpy = NoSigma
    /\ weights_numpy = <<>>
    /\ optimizer = NoOpt
    /\ df = NoDf
    /\ call = NoCall
    /\ lastCall = Ended("init", "ok", <<>>, <<>>)
    /\ buildCount = 0
    /\ fitCalls = 0
    /\ ncalls = 0

add_layer(hidden, reg) ==
    /\ Enter
    /\ Len(layers) < MaxLayers
    /\ layers' = Append(layers,
                   NewLayer(IF layers = <<>> THEN input_shape ELSE r_dim(layers),
                            hidden, reg))
    /\ call' = NoCall
    /\ lastCall' = Ended("add_layer", "ok", <<hidden, reg>>, <<>>)
    /\ UNCHANGED <<input_shape, weights, losses, history, sigma, sigma_numpy,
                   weights_numpy, optimizer, df, buildCount, fitCalls>>

build(d, opt, l1, l2, reg_on_Cov, reg_on_Diag, inverse) ==
    LET args == <<d, opt, l1, l2, reg_on_Cov, reg_on_Diag, inverse>> IN
    /\ Enter
    /\ call' = NoCall
    /\ IF df = NoDf /\ d = NoDf
       THEN \* int(None) raises before anything is stored
            /\ lastCall' = Ended("build", "TypeError", args, <<>>)
            /\ UNCHANGED <<input_shape, layers, weights, losses, history, sigma,
                           sigma_numpy, weights_numpy, optimizer, df, buildCount,
                           fitCalls>>
       ELSE
       /\ df' = build_df(df, d)
       /\ IF layers = <<>>
          THEN \* self.layers[-1] raises; self.df is already stored
               /\ lastCall' = Ended("build", "IndexError", args, <<>>)
               /\ UNCHANGED <<input_shape, layers, weights, losses, history,
                              sigma, sigma_numpy, weights_numpy, optimizer,
                              buildCount, fitCalls>>
          ELSE
          /\ sigma' = <<r_dim(layers), df'>>
          /\ layers' = [i \in 1..Len(layers) |-> BuildLayer(layers[i])]
          /\ weights' = build_weights(weights, layers)
          /\ losses' = losses \o build_layer_losses(layers)
                         \o cov_constrain_terms(l1, l2, reg_on_Cov, reg_on_Diag, inverse)
          /\ buildCount' = buildCount + 1
          /\ optimizer' = build_optimizer(optimizer, opt, weights')
          /\ lastCall' = Ended("build", "ok", args, <<>>)
          /\ UNCHANGED <<input_shape, history, sigma_numpy, weights_numpy, fitCalls>>

\* ---- batching ----
\* line 162: stepSize = floor(N / batch_size)
StepSize(N, batch_size) == N \div batch_size

\* a slip: the trailing partial batch is never dropped
NumBatches_keep(N, batch_size, drop_last) == (N + batch_size - 1) \div batch_size

\* number of batches the DataLoader of _get_DataLoader yields
NumBatches(N, batch_size, drop_last) ==
    IF drop_last THEN N \div batch_size
    ELSE (N + batch_size - 1) \div batch_size

\* the rows of batch k (k = 1, 2, ...) when shuffle = False
BatchRows(N, batch_size, k) ==
    LET lo == (k - 1) * batch_size
        hi == IF k * batch_size <= N THEN k * batch_size ELSE N
    IN  [i \in 1..(hi - lo) |-> lo + i]

\* broadcasting of the batch axis of noise (batch_size) against mu and Ys (n):
\* the length of the loss the closure returns, 0 for a shape error
LossRows(n, batch_size) ==
    IF n = batch_size THEN n
    ELSE IF n = 1 THEN batch_size
    ELSE IF batch_size = 1 THEN n
    ELSE 0

\* the forward pass self.layers[0](x), self.layers[i](mu) ...
Forward(ls) ==
    IF ls = <<>> THEN "IndexError"
    ELSE IF \E i \in 1..Len(ls) : ~LayerReady(ls[i]) THEN "LayerError"
    ELSE "ok"

\* line 170
new_history(old, epochs) == Zeros(epochs)

\* a slip: the epoch reports its first batch
epoch_loss_first(batch_loss) == batch_loss[1]

\* lines 192, 195: the value stored for the epoch, given the loss of each batch
\* of the epoch in order (loss is the local of the last batch)
epoch_loss(batch_loss) == batch_loss[Len(batch_loss)]

\* lines 199-200: one snapshot per layer appended to self.weights_numpy
snapshot_weights(wn, ls) ==
    wn \o [i \in 1..Cardinality({j \in 1..Len(ls) : LayerReady(ls[j])}) |-> i]

Builtp == sigma # NoSigma /\ Forward(layers) = "ok"

fit_call(N, batch_size, epochs) ==
    /\ Enter
    /\ fitCalls' = fitCalls + 1
    /\ history' = new_history(history, epochs)
    /\ call' = [status |-> "running", N |-> N, batch_size |-> batch_size,
                epochs |-> epochs, stepSize |-> StepSize(N, batch_size),
                epoch |-> 0, step |-> 0, loss |-> Unbound,
                batch_loss |-> Zeros(StepSize(N, batch_size)),
                steps |-> 0, res |-> "running",
                history0 |-> history,
                built0 |-> Builtp /\ optimizer # NoOpt]
    /\ UNCHANGED <<input_shape, layers, weights, losses, sigma, sigma_numpy,
                   weights_numpy, optimizer, df, lastCall, buildCount>>

\* the fit call ends with an exception
fit_raise(err) ==
    /\ call' = [call EXCEPT !.status = "ended", !.res = err]
    /\ lastCall' = Ended("fit", err, <<call.N, call.batch_size, call.epochs>>,
                         <<call.steps>>)

\* lines 173-190: one batch of the current epoch
fit_batch ==
    /\ call.status = "running"
    /\ UNCHANGED ncalls
    /\ call.epoch < call.epochs
    /\ call.step < NumBatches(call.N, call.batch_size, TRUE)
    /\ IF Forward(layers) # "ok"
       THEN /\ fit_raise(Forward(layers))
            /\ UNCHANGED sigma
       ELSE IF sigma = NoSigma
       THEN \* self.__loss_function exists only after build
            /\ fit_raise("AttributeError")
            /\ UNCHANGED sigma
       ELSE IF LossRows(Len(BatchRows(call.N, call.batch_size, call.step + 1)),
                        call.batch_size) = 0
       THEN /\ fit_raise("RuntimeError")
            /\ UNCHANGED sigma
       ELSE LET loss == Loss(fitCalls, call.epoch + 1, call.step + 1, Len(losses)) IN
            IF optimizer = NoOpt
            THEN /\ fit_raise("AttributeError")
                 /\ UNCHANGED sigma
            ELSE \* zero_grad, backward, step: the entries of the parameters
                 \* the optimizer holds change, their shapes do not
                 /\ sigma' = sigma
                 /\ call' = [call EXCEPT !.step = @ + 1, !.loss = loss,
                                         !.batch_loss[call.step + 1] = loss,
                                         !.steps = @ + 1]
                 /\ UNCHANGED lastCall
    /\ UNCHANGED <<input_shape, layers, weights, losses, history, sigma_numpy,
                   weights_numpy, optimizer, df, buildCount, fitCalls>>

\* lines 191-195: the end of an epoch
fit_epoch_end ==
    /\ call.status = "running"
    /\ UNCHANGED ncalls
    /\ call.epoch < call.epochs
    /\ call.step = NumBatches(call.N, call.batch_size, TRUE)
    /\ IF call.loss = Unbound
       THEN \* no batch ran: the local loss was never assigned
            /\ fit_raise("UnboundLocalError")
            /\ UNCHANGED history
       ELSE /\ history' = [history EXCEPT ![call.epoch + 1] = epoch_loss(call.batch_loss)]
            /\ call' = [call EXCEPT !.epoch = @ + 1, !.step = 0]
            /\ UNCHANGED lastCall
    /\ UNCHANGED <<input_shape, layers, weights, losses, sigma, sigma_numpy,
                   weights_numpy, optimizer, df, buildCount, fitCalls>>

\* lines 197-201: the snapshots after the last epoch
fit_return ==
    /\ call.status = "running"
    /\ UNCHANGED ncalls
    /\ call.epoch = call.epochs
    /\ IF sigma = NoSigma
       THEN /\ fit_raise("AttributeError")
            /\ UNCHANGED <<sigma_numpy, weights_numpy>>
       ELSE /\ sigma_numpy' = sigma
            /\ weights_numpy' = snapshot_weights(weights_numpy, layers)
            /\ IF \E i \in 1..Len(layers) : ~LayerReady(layers[i])
               THEN fit_raise("LayerError")
               ELSE /\ call' = [call EXCEPT !.status = "ended", !.res = "ok"]
                    /\ lastCall' = Ended("fit", "ok",
                                         <<call.N, call.batch_size, call.epochs>>,
                                         <<call.steps>>)
    /\ UNCHANGED <<input_shape, layers, weights, losses, history, sigma,
                   optimizer, df, buildCount, fitCalls>>

\* ---- predict and logLik: they read the model and return a value ----
RECURSIVE predict_rows(_, _, _)
\* the rows of the concatenated output, batch k onwards; <<0>> marks an error
predict_rows(N, batch_size, k) ==
    IF k > NumBatches(N, batch_size, FALSE) THEN <<>>
    ELSE LET rows == BatchRows(N, batch_size, k)
             m    == LossRows(Len(rows), Len(rows))
         IN  SubSeq(rows, 1, m) \o predict_rows(N, batch_size, k + 1)

predict(N, batch_size) ==
    /\ Enter
    /\ call' = NoCall
    /\ lastCall' = IF Forward(layers) # "ok"
                   THEN Ended("predict", Forward(layers), <<N, batch_size>>, <<>>)
                   ELSE Ended("predict", "ok", <<N, batch_size>>,
                              predict_rows(N, batch_size, 1))
    /\ UNCHANGED <<input_shape, layers, weights, losses, history, sigma,
                   sigma_numpy, weights_numpy, optimizer, df, buildCount,
                   fitCalls>>

RECURSIVE logLik_rows(_, _, _)
\* the rows whose loss enters logLik, batch k onwards, in the order summed;
\* <<0>> marks the shape error of a batch
logLik_rows(N, batch_size, k) ==
    IF k > NumBatches(N, batch_size, FALSE) THEN <<>>
    ELSE LET rows == BatchRows(N, batch_size, k)
             m    == LossRows(Len(rows), batch_size)
         IN  IF m = 0 THEN <<0>>
             ELSE [i \in 1..m |-> IF Len(rows) = 1 THEN rows[1] ELSE rows[i]]
                  \o logLik_rows(N, batch_size, k + 1)

\* lines 256-260: the regularization total over nb batches
logLikReg(ts, F, nb) == IF Len(ts) > 0 THEN nb * SumTerms(ts, F) ELSE 0

logLik(N, batch_size, F) ==
    /\ Enter
    /\ call' = NoCall
    /\ IF Forward(layers) # "ok"
         THEN lastCall' = Ended("logLik", Forward(layers), <<N, batch_size>>, <<>>)
         ELSE LET rows == logLik_rows(N, batch_size, 1) IN
              IF \E i \in 1..Len(rows) : rows[i] = 0
              THEN lastCall' = Ended("logLik", "RuntimeError", <<N, batch_size>>, <<>>)
              ELSE lastCall' = [Ended("logLik", "ok", <<N, batch_size>>, rows) EXCEPT
                      !.reg = <<F, logLikReg(losses, F, NumBatches(N, batch_size, FALSE))>>]
    /\ UNCHANGED <<input_shape, layers, weights, losses, history, sigma,
                   sigma_numpy, weights_numpy, optimizer, df, buildCount,
                   fitCalls>>

\* the entries self.sigma may hold when logLik reads them: any matrix of its
\* shape (Entries), or one of them (Probe)
Entries(sg) == IF sg = NoSigma THEN {NoSigma} ELSE Matrices(sg[1], sg[2])
Probe(sg) == IF sg = NoSigma THEN {NoSigma}
             ELSE {[i \in 1..sg[1] |-> [j \in 1..sg[2] |-> 2]]}

\* the penalties the life-cycle specification builds with
LifecyclePenalties == {<<0, 0, TRUE, TRUE>>, <<1, 0, FALSE, TRUE>>}

Next ==
    \/ \E h \in 1..MaxHidden : add_layer(h, FALSE)
    \/ \E d \in 0..MaxDf, opt \in BOOLEAN, p \in LifecyclePenalties :
          build(d, opt, p[1], p[2], p[3], p[4], FALSE)
    \/ \E N \in 1..MaxN, b \in 1..MaxBatch, e \in 0..MaxEpochs : fit_call(N, b, e)
    \/ fit_batch
    \/ fit_epoch_end
    \/ fit_return
    \/ \E N \in 1..MaxN, b \in 1..MaxBatch : predict(N, b)
    \/ \E N \in 1..MaxN, b \in 1..MaxBatch, F \in Probe(sigma) : logLik(N, b, F)

Spec == Init /\ [][Next]_vars

\* the regularizer specification: a model built once, with every penalty
\* setting, on layers with and without a regularizer of their own; no training
NextReg ==
    \/ \E h \in 1..MaxHidden, reg \in BOOLEAN : add_layer(h, reg)
    \/ \E d \in 0..MaxDf, opt \in BOOLEAN, l1 \in 0..MaxPenalty, l2 \in 0..MaxPenalty,
          rc \in BOOLEAN, rd \in BOOLEAN, inv \in InverseFlags :
          buildCount = 0 /\ build(d, opt, l1, l2, rc, rd, inv)
    \/ \E N \in 1..MaxN, F \in Probe(sigma) : logLik(N, 1, F)

RegSpec == Init /\ [][NextReg]_vars

\* ======================= the claims =======================

\* C1 (as stated): after the first build that returns, called with df = d, the
\* stored df is d, and no later call changes it.
C1_DfOfFirstBuild ==
    [][/\ (buildCount = 0 /\ buildCount' = 1 /\ lastCall'.args[1] # NoDf)
            => df' = lastCall'.args[1]
       /\ buildCount >= 1 => df' = df]_vars

\* C2 (as stated): once built, no call changes the shape of sigma.
C2_ShapeFixed == [][sigma # NoSigma => sigma' = sigma]_vars

\* C2 (amended): once built, sigma keeps its number of columns; add_layer, fit,
\* predict and logLik leave its shape alone; a later build re-allocates it with
\* as many rows as the output width of the last layer at that build.
C2_ShapeFollowsBuild ==
    [][sigma # NoSigma =>
         /\ sigma'[2] = sigma[2]
         /\ buildCount' = buildCount => sigma' = sigma
         /\ buildCount' # buildCount => sigma'[1] = r_dim(layers)]_vars

\* C2 witness: built with one layer, a layer of another width added, built
\* again: sigma has the rows of the new last layer.
C2_Witness ==
    /\ buildCount = 2
    /\ weights = <<1, 1, 2>>
    /\ layers[1].shape[2] # layers[2].shape[2]
    /\ sigma = <<layers[2].shape[2], df>>

\* C3: a fit call on a built model (with an optimizer) runs floor(N/batch_size)
\* batches in every epoch, so it ends after epochs * floor(N/batch_size)
\* gradient steps, none when epochs = 0.
C3_GradientSteps ==
    (call.status # "none" /\ call.built0) =>
        LET nb == call.N \div call.batch_size IN
        /\ call.step <= nb
        /\ call.status = "running" => call.steps = call.epoch * nb + call.step
        /\ call.status = "ended" => call.steps = call.epochs * nb

\* C3 witness: 3 rows in batches of 2 for 2 epochs returned after 2 steps.
C3_Witness ==
    /\ call.status = "ended" /\ call.res = "ok" /\ call.built0
    /\ call.N = 3 /\ call.batch_size = 2 /\ call.epochs = 2 /\ call.steps = 2

\* C4: when a fit call with epochs = E returns, history has E entries, entry e
\* the loss of the last batch of epoch e of this call (data loss plus every
\* registered regularization term); nothing of an earlier call's history is left.
C4_HistoryOfLastBatches ==
    (call.status = "ended" /\ call.res = "ok") =>
        /\ Len(history) = call.epochs
        /\ \A e \in 1..Len(history) :
              history[e] = Loss(fitCalls, e, call.N \div call.batch_size, Len(losses))

\* C4 witness: a second fit call of 1 epoch with 2 or more batches returned,
\* the call before it having left 2 entries.
C4_Witness ==
    /\ call.status = "ended" /\ call.res = "ok" /\ fitCalls = 2
    /\ call.history0 # NoHistory /\ Len(call.history0) = 2
    /\ call.epochs = 1 /\ call.N \div call.batch_size >= 2

\* C5 (as stated): on a built model logLik completes for every N and
\* batch_size, and its first result sums the loss of each row exactly once.
C5_LogLikCountsEachRowOnce ==
    (lastCall.op = "logLik" /\ Builtp) =>
        /\ lastCall.res = "ok"
        /\ lastCall.out = [i \in 1..lastCall.args[1] |-> i]

\* C6 (as stated): while no fit call was made, weights, weights_numpy and
\* sigma_numpy are all empty/unset.
C6_NothingBeforeFit ==
    fitCalls = 0 => (weights = <<>> /\ weights_numpy = <<>> /\ sigma_numpy = NoSigma)

\* C6 (amended): while no fit call was made, weights_numpy and sigma_numpy are
\* empty/unset; weights is filled by build (empty exactly until the first
\* build that allocates).
C6_SnapshotsOnlyByFit ==
    fitCalls = 0 =>
        /\ weights_numpy = <<>>
        /\ sigma_numpy = NoSigma
        /\ (weights = <<>>) <=> (buildCount = 0)

\* C6 witness: a built model, never fitted, on which logLik has just returned.
C6_Witness ==
    /\ fitCalls = 0 /\ buildCount >= 1 /\ weights # <<>>
    /\ lastCall.op = "logLik" /\ lastCall.res = "ok"

\* C7 (as stated): a fit call on a built model with batch_size > N ends in an
\* error, makes no gradient step and leaves history as it was.
C7_ZeroBatchesSignalled ==
    (call.status = "ended" /\ call.built0 /\ call.batch_size > call.N) =>
        /\ call.res # "ok"
        /\ call.steps = 0
        /\ history = call.history0

\* C8: after a single build with reg_on_Cov = False on layers without a
\* regularizer of their own, the registered terms are one per non-zero penalty
\* weight and sum to l1 * sum|F_ij| + l2 * sum(F_ij^2) on every factor F.
C8_FactorPenalty ==
    (/\ lastCall.op = "build" /\ lastCall.res = "ok" /\ buildCount = 1
     /\ ~lastCall.args[5]
     /\ \A i \in 1..Len(layers) : ~layers[i].reg) =>
        LET l1 == lastCall.args[3]
            l2 == lastCall.args[4]
        IN  /\ Len(losses) = (IF l1 > 0 THEN 1 ELSE 0) + (IF l2 > 0 THEN 1 ELSE 0)
            /\ \A F \in Entries(sigma) :
                  /\ SumTerms(losses, F) = l1 * SumAbs(F) + l2 * SumSq(F)
                  /\ (l1 > 0 /\ l2 = 0) => EvalTerm(losses[1], F) = l1 * SumAbs(F)

\* C8 witness: the single build had l1 = 2, l2 = 0, reg_on_Cov = False and
\* registered one term.
C8_Witness ==
    /\ lastCall.op = "build" /\ lastCall.res = "ok" /\ buildCount = 1
    /\ lastCall.args[3] = 2 /\ lastCall.args[4] = 0 /\ ~lastCall.args[5]
    /\ \A i \in 1..Len(layers) : ~layers[i].reg
    /\ Len(losses) = 1 /\ sigma = <<2, 2>>

\* C9 (as stated): whenever a fit call returns, weights_numpy holds exactly one
\* snapshot per layer, entry i that of layer i.
C9_OneSnapshotPerLayer ==
    (call.status = "ended" /\ call.res = "ok") =>
        weights_numpy = [i \in 1..Len(layers) |-> i]

\* C10 (as stated): a build repeated with the same arguments leaves as many
\* terms in losses and entries in weights as the build before it.
C10_BuildIdempotent ==
    [][(/\ lastCall.op = "build" /\ lastCall.res = "ok"
        /\ ncalls' = ncalls + 1
        /\ lastCall'.op = "build" /\ lastCall'.res = "ok"
        /\ lastCall'.args = lastCall.args)
       => (Len(losses') = Len(losses) /\ Len(weights') = Len(weights))]_vars

====
